---- MODULE Spec2Model ----
(***************************************************************************)
(* galerio: a directory of JPEG files is turned into a static gallery.     *)
(* The model follows src/src/main.rs: main() discovers and sorts the       *)
(* input files, creates the optional ZIP archive behind a mutex, maps the  *)
(* files in parallel (rayon par_iter) through the per-item closure, and    *)
(* collects the results into the template context.                         *)
(*                                                                         *)
(* Text is modelled as sequences of one-character strings; Alphabet lists  *)
(* the characters in ASCII order so that comparisons are byte comparisons. *)
(***************************************************************************)
EXTENDS Naturals, Integers, Sequences, FiniteSets, TLC

\* ------------------------------------------------------------------ bounds

\* Largest number of entries in the input directory.
MaxEntries == 3

\* Threads of the rayon pool: closures that may run at the same time.
NumThreads == 2

\* ------------------------------------------------------------------- text

Alphabet ==
    << " ", "!", "-", ".", "/", "0", "2", "4",
       "G", "J", "M", "P", "T", "_",
       "a", "b", "c", "d", "g", "h", "i", "j", "m", "n", "o", "p", "r", "t",
       "u", "y", "z", "U+00E9", "0xFF" >>

\* A byte that occurs in no UTF-8 text.
InvalidByte == "0xFF"

Code(c) == CHOOSE k \in 1..Len(Alphabet) : Alphabet[k] = c

\* Ord::cmp on the bytes of two names: s < t.
RECURSIVE StrLess(_, _)
StrLess(s, t) ==
    IF t = << >> THEN FALSE
    ELSE IF s = << >> THEN TRUE
    ELSE IF Head(s) = Head(t) THEN StrLess(Tail(s), Tail(t))
    ELSE Code(Head(s)) < Code(Head(t))

\* str::ends_with
EndsWith(s, suffix) ==
    /\ Len(s) >= Len(suffix)
    /\ SubSeq(s, Len(s) - Len(suffix) + 1, Len(s)) = suffix

\* Path::file_stem of a file name: the part before the last '.', the whole
\* name when it has no '.' or only a leading one.
LastDot(s) ==
    IF \E k \in 1..Len(s) : s[k] = "."
    THEN CHOOSE k \in 1..Len(s) : s[k] = "." /\ \A m \in (k+1)..Len(s) : s[m] # "."
    ELSE 0

\* A path is its parent directory and its last component.
\* PathBuf::join
join(d, name) == [parent |-> d, name |-> name]

\* Path::file_name
file_name(p) == p.name

\* OsStr::to_str: the text of a name, None when it is not valid UTF-8; the
\* result is an Option as defined below.
to_str(name) ==
    IF \E k \in 1..Len(name) : name[k] = InvalidByte
    THEN [none |-> TRUE] ELSE [some |-> name]

file_stem_to_first_dot(p) ==
    LET s == p.name
        first == IF \E k \in 1..Len(s) : s[k] = "."
                 THEN CHOOSE k \in 1..Len(s) :
                          s[k] = "." /\ \A m \in 1..(k-1) : s[m] # "."
                 ELSE 0
    IN  IF first <= 1 THEN s ELSE SubSeq(s, 1, first - 1)

file_stem(p) ==
    IF LastDot(p.name) <= 1 THEN p.name ELSE SubSeq(p.name, 1, LastDot(p.name) - 1)

\* Ord for Path: component by component.
PathLess(p, q) ==
    IF p.parent # q.parent THEN StrLess(p.parent, q.parent)
    ELSE StrLess(p.name, q.name)

SortPathsOmitted(s) == s

\* Vec::sort on paths (insertion into a sorted prefix).
RECURSIVE SortPaths(_)
InsertSorted(x, sorted) ==
    LET smaller == SelectSeq(sorted, LAMBDA y : PathLess(y, x))
        rest    == SelectSeq(sorted, LAMBDA y : ~PathLess(y, x))
    IN  smaller \o << x >> \o rest

SortPaths(s) ==
    IF s = << >> THEN << >> ELSE InsertSorted(Head(s), SortPaths(Tail(s)))

\* ------------------------------------------------------------ the program

VARIABLES
    args,                   \* Args: the parsed command line
    inputKind,              \* what args.input_dir is on disk
    sources,                \* the retained entries of the input directory
    outDirExists,           \* args.output_dir exists
    pcMain,                 \* main's position
    image_files,            \* Vec<PathBuf>, sorted
    download_filename,      \* Option<String>
    zipfile,                \* Mutex<Option<ZipWriter<File>>>: the protected value
    lockHolder,             \* the item whose closure holds the MutexGuard, or 0
    poisoned,               \* the mutex is poisoned
    pc,                     \* each item's position in the closure
    orientation,            \* each item's local `orientation`
    result,                 \* each item's Result<Image>
    outfiles,               \* files in the output directory, by path
    wrote,                  \* history: which item wrote which output path
    images,                 \* Vec<Image> collected at line 305
    download_filesize_mib,  \* Option<u64>
    context,                \* TemplateContext
    indexWritten,           \* index.html is on disk
    staticWritten,          \* static/ is on disk
    runErr,                 \* the error main returns
    probe                   \* a function applied on its own: input and output

vars ==
    << args, inputKind, sources, outDirExists, pcMain, image_files,
       download_filename, zipfile, lockHolder, poisoned, pc, orientation,
       result, outfiles, wrote, images, download_filesize_mib, context,
       indexWritten, staticWritten, runErr, probe >>

None == [none |-> TRUE]
Some(x) == [some |-> x]
IsSome(o) == o # None

Ok(x) == [ok |-> x]
Err(e) == [err |-> e]
IsOk(r) == "ok" \in DOMAIN r
IsErr(r) == "err" \in DOMAIN r

MiB == 1048576

\* ----------------------------------------------------------------- inputs

Name_a_JPG == << "a", ".", "J", "P", "G" >>
Name_a_jpg == << "a", ".", "j", "p", "g" >>
Name_b_jpg == << "b", ".", "j", "p", "g" >>
Name_c_png == << "c", ".", "p", "n", "g" >>
Name_d_jpg == << "d", ".", "j", "p", "g" >>

Name_e_bad_jpg == << "e", "0xFF", ".", "j", "p", "g" >>

\* Candidate directory entries.  res: the item of the read_dir iterator is
\* Ok or Err; file_type: what DirEntry::file_type gives ("err" when it
\* fails; a symlink is not followed); then the name, the length in bytes
\* and the pixel dimensions of the image.
DirEntry(name, res, file_type, len, w, h) ==
    [name |-> name, res |-> res, file_type |-> file_type,
     len |-> len, w |-> w, h |-> h]

DirPool ==
    { DirEntry(Name_a_JPG, "ok", "file", 1000, 800, 600),
      DirEntry(Name_a_jpg, "ok", "file", MiB - 40, 4000, 2000),
      DirEntry(Name_b_jpg, "ok", "file", 3 * MiB, 5000, 1000),
      DirEntry(Name_c_png, "ok", "file", 500, 10, 10),
      DirEntry(Name_d_jpg, "ok", "dir", 0, 0, 0),
      DirEntry(Name_e_bad_jpg, "ok", "file", 1000, 800, 600) }

Titles == { << "M", "y", " ", "T", "r", "i", "p", " ", "2", "0", "2", "4" >> }

\* Lengths a re-encoded JPEG may have.
EncodedLens == { 700, MiB + 1 }

InputDir == << "i", "n" >>
OutputDir == << "o", "u", "t" >>

\* The command lines tried; --resize-include-panorama is read only when
\* --max-large-size is given.
ArgsSet ==
    { a \in [ input_dir : { InputDir },
              output_dir : { OutputDir },
              title : Titles,
              thumbnail_height : { 300 },
              max_large_size : { None, Some(1024) },
              resize_include_panorama : BOOLEAN,
              no_download : BOOLEAN,
              skip_processing : BOOLEAN ] :
        a.resize_include_panorama => IsSome(a.max_large_size) }

\* The directory entry behind a path of the input directory.
Entry(f) == CHOOSE e \in sources : e.name = f.name

\* The items of the parallel map, once it has started.
Items == DOMAIN pc

\* ------------------------------------------------------ Orientation Reader

\* Largest number of values in the orientation field.
MaxShorts == 2

\* All values a field may list.
TagValues == 0..9

ShortLists == UNION { [1..n -> TagValues] : n \in 0..MaxShorts }

\* What reading the EXIF data of a file can give: the file cannot be
\* opened, the container cannot be parsed, or the primary orientation field
\* is absent, a list of shorts, or a value of another type.
ExifStates ==
    { [read |-> "open_failed"], [read |-> "parse_failed"],
      [read |-> "ok", field |-> None] }
    \cup { [read |-> "ok", field |-> Some([type |-> "Short", data |-> d])] :
             d \in ShortLists }
    \cup { [read |-> "ok", field |-> Some([type |-> t, data |-> d])] :
             t \in { "Long", "Ascii" }, d \in { << >>, << 6 >> } }

OrientationOfTagSwapped(v) ==
    CASE v = 1 -> "Deg0"
      [] v = 8 -> "Deg270"
      [] v = 3 -> "Deg180"
      [] v = 6 -> "Deg90"
      [] OTHER -> "Deg0"

\* The match of lines 162-168.
OrientationOfTag(v) ==
    CASE v = 1 -> "Deg0"
      [] v = 8 -> "Deg90"
      [] v = 3 -> "Deg180"
      [] v = 6 -> "Deg270"
      [] OTHER -> "Deg0"

\* get_orientation: Result<Orientation>.
get_orientation(exif) ==
    IF exif.read = "open_failed" THEN Err([kind |-> "io", path |-> None])
    ELSE IF exif.read = "parse_failed" THEN Err([kind |-> "exif", path |-> None])
    ELSE
        LET first ==
                IF IsSome(exif.field) /\ exif.field.some.type = "Short"
                   /\ exif.field.some.data # << >>
                THEN Some(exif.field.some.data[1])
                ELSE None
            mapped ==
                IF IsSome(first) THEN Some(OrientationOfTag(first.some)) ELSE None
        IN  Ok(IF IsSome(mapped) THEN mapped.some ELSE "Deg0")

\* Result::unwrap_or
unwrap_or(r, default) == IF IsOk(r) THEN r.ok ELSE default

\* Line 253.
ItemOrientation(exif) == unwrap_or(get_orientation(exif), "Deg0")

\* The orientations line 253 can give, over every state of the EXIF data.
ItemOrientations == { ItemOrientation(exif) : exif \in ExifStates }

\* ------------------------------------------------ geometry of resize_image

\* Pixel dimensions are pairs << width, height >>.  A JPEG has sides from 1
\* to 65535.

is_panorama_at_ratio_two(w, h) == w >= 2 * h

\* Lines 115-116: w as f32 / h as f32 > 2.0.  Both casts are exact below
\* 2^24, and the rounded quotient of w > 2 * h stays above 2.0 as long as
\* h <= 2^23, so for the sides of a JPEG the test is the integer one.
is_panorama(w, h) == w > 2 * h

\* Lines 120-125: the rotation method called for an orientation.
RotationFor(o) ==
    CASE o = "Deg0" -> "none"
      [] o = "Deg90" -> "rotate270"
      [] o = "Deg180" -> "rotate180"
      [] o = "Deg270" -> "rotate90"

\* The dimensions after a rotation: a quarter turn swaps the sides.
Rotate(dims, rotation) ==
    IF rotation \in { "rotate90", "rotate270" } THEN << dims[2], dims[1] >> ELSE dims

\* f64::round of the quotient a / b of naturals: half rounds away from zero.
RoundDiv(a, b) == (2 * a + b) \div (2 * b)

AtLeastOne(n) == IF n < 1 THEN 1 ELSE n

\* Line 126, DynamicImage::resize: the image is scaled by the smaller of
\* nwidth / width and nheight / height, each side rounded to a whole pixel
\* and never below 1.  The scale may be above 1.
resize(dims, nwidth, nheight) ==
    LET width == dims[1]
        height == dims[2]
    IN  IF nwidth * height <= nheight * width
        THEN << AtLeastOne(RoundDiv(width * nwidth, width)),
                AtLeastOne(RoundDiv(height * nwidth, width)) >>
        ELSE << AtLeastOne(RoundDiv(width * nheight, height)),
                AtLeastOne(RoundDiv(height * nheight, height)) >>

\* Lines 104-133 on an image that decodes and encodes: what is done to the
\* image and the dimensions of the JPEG returned.
resize_image(dims, max_width, max_height, o, panorama_detection) ==
    LET pano == is_panorama(dims[1], dims[2])
    IN  IF ~(pano /\ panorama_detection)
        THEN [is_panorama |-> pano,
              rotation |-> RotationFor(o),
              resized |-> TRUE,
              dims |-> resize(Rotate(dims, RotationFor(o)), max_width, max_height)]
        ELSE [is_panorama |-> pano,
              rotation |-> "none",
              resized |-> FALSE,
              dims |-> dims]

ThumbnailCallSquare(a) ==
    [max_width |-> a.thumbnail_height,
     max_height |-> a.thumbnail_height,
     panorama_detection |-> FALSE]

\* Lines 256-262: the arguments of the thumbnail's resize_image.  The
\* product is a u32 and is exact for heights below 2^30.
ThumbnailCall(a) ==
    [max_width |-> a.thumbnail_height * 4,
     max_height |-> a.thumbnail_height,
     panorama_detection |-> FALSE]

\* Lines 271-277: the arguments of the full-size resize_image.
LargeCallAlwaysExempt(a) ==
    [max_width |-> a.max_large_size.some,
     max_height |-> a.max_large_size.some,
     panorama_detection |-> TRUE]

LargeCall(a) ==
    [max_width |-> a.max_large_size.some,
     max_height |-> a.max_large_size.some,
     panorama_detection |-> ~a.resize_include_panorama]

\* --------------------------------------------------------- file names

Ext_jpg == << ".", "j", "p", "g" >>
Ext_JPG == << ".", "J", "P", "G" >>
Suffix_thumb == << ".", "t", "h", "u", "m", "b", ".", "j", "p", "g" >>
Suffix_zip == << ".", "z", "i", "p" >>

\* Line 239: the file name of the path.
filename_full(f) == file_name(f)

\* Lines 240-246.
filename_thumb(f) == file_stem(f) \o Suffix_thumb

\* Lines 239-246: the unwraps succeed when the file name and the file stem
\* are UTF-8; otherwise the closure panics.
Nameable(f) ==
    /\ to_str(file_name(f)) # [none |-> TRUE]
    /\ to_str(file_stem(f)) # [none |-> TRUE]

\* The Image of lines 300-303.
ImageOf(f) == [filename_full |-> filename_full(f), filename_thumb |-> filename_thumb(f)]

RetainedWhateverType(e) ==
    /\ e.res = "ok"
    /\ to_str(e.name) # [none |-> TRUE]
    /\ \/ EndsWith(to_str(e.name).some, Ext_jpg)
       \/ EndsWith(to_str(e.name).some, Ext_JPG)

\* Lines 195-209: the entry was read, file_type() says regular file, and
\* the name is UTF-8 and ends in .jpg or .JPG.
Retained(e) ==
    /\ e.res = "ok"
    /\ e.file_type = "file"
    /\ to_str(e.name) # [none |-> TRUE]
    /\ \/ EndsWith(to_str(e.name).some, Ext_jpg)
       \/ EndsWith(to_str(e.name).some, Ext_JPG)

is_ascii_alphanumeric(c) ==
    c \in { "0", "2", "4", "G", "J", "M", "P", "T",
            "a", "b", "c", "d", "g", "h", "i", "j", "m", "n", "o", "p", "r", "t",
            "u", "y", "z" }

ZipNameUnfiltered(title) ==
    [k \in 1..Len(title) |-> IF title[k] = " " THEN "_" ELSE title[k]] \o Suffix_zip

\* Lines 218-224.
ZipName(title) ==
    LET mapped == [k \in 1..Len(title) |-> IF title[k] = " " THEN "_" ELSE title[k]]
        kept == SelectSeq(mapped,
                    LAMBDA c : is_ascii_alphanumeric(c) \/ c = "-" \/ c = "_" \/ c = ".")
    IN  kept \o Suffix_zip

\* ------------------------------------------------------------ the archive

RECURSIVE SumLocal(_)
SumLocal(entries) ==
    IF entries = << >> THEN 0
    ELSE 30 + Len(Head(entries).name) + Head(entries).len + SumLocal(Tail(entries))

RECURSIVE SumCentral(_)
SumCentral(entries) ==
    IF entries = << >> THEN 0
    ELSE 46 + Len(Head(entries).name) + SumCentral(Tail(entries))

\* Length of the archive file: the local headers and data written so far
\* and, once the writer has been finalized, the central directory and the
\* end-of-central-directory record.
ZipFileLen(z) ==
    SumLocal(z.entries)
    + (IF z.finalized THEN SumCentral(z.entries) + 22 ELSE 0)

\* Line 310: (bytes as f64 / 1024.0 / 1024.0).ceil() as u64
CeilMiB(bytes) == (bytes + MiB - 1) \div MiB

\* ------------------------------------------------------------------- main

\* Errors carry what the failing call reported; no caller attaches a path
\* to them (no .context() on the `?` of lines 188, 195, 262-286).
ConfigError(msg) == [kind |-> "config", msg |-> msg, path |-> None]
IoError == [kind |-> "io", path |-> None]
ImageError == [kind |-> "image", path |-> None]
RenderError == [kind |-> "render", path |-> None]

Directories == { d \in SUBSET DirPool : Cardinality(d) <= MaxEntries }

\* Nothing has run yet.
NotStarted ==
    /\ sources = {}
    /\ pcMain = "validate"
    /\ image_files = << >>
    /\ download_filename = None
    /\ zipfile = None
    /\ lockHolder = 0
    /\ poisoned = FALSE
    /\ pc = << >>
    /\ orientation = << >>
    /\ result = << >>
    /\ outfiles = {}
    /\ wrote = {}
    /\ images = None
    /\ download_filesize_mib = None
    /\ context = None
    /\ indexWritten = FALSE
    /\ staticWritten = FALSE
    /\ runErr = None

Init ==
    /\ args \in ArgsSet
    /\ inputKind \in { "missing", "file", "dir" }
    /\ outDirExists \in BOOLEAN
    /\ NotStarted
    /\ probe = None

\* Drop for ZipWriter: a writer that was not finished writes the central
\* directory when it is dropped (a failure to write it is only printed).
DropZipWriter(z) ==
    IF IsSome(z) /\ ~z.some.finalized
    THEN Some([z.some EXCEPT !.finalized = TRUE])
    ELSE z

\* main returns or unwinds: its locals are dropped, `zipfile` among them.
Returns(how) ==
    /\ pcMain' = how
    /\ zipfile' = DropZipWriter(zipfile)

\* `return Err(e)` or `?` in main.
Fail(e) ==
    /\ runErr' = Some(e)
    /\ Returns("error")

ValidateAfterCreatingOutput ==
    /\ pcMain = "validate"
    /\ outDirExists' = TRUE
    /\ IF inputKind = "missing"
       THEN Fail(ConfigError("Input directory does not exist"))
       ELSE IF inputKind # "dir"
       THEN Fail(ConfigError("Input directory path is not a directory"))
       ELSE pcMain' = "create_out" /\ UNCHANGED << runErr, zipfile >>
    /\ UNCHANGED << probe, args, inputKind, sources, image_files,
                    download_filename, lockHolder, poisoned, pc,
                    orientation, result, outfiles, wrote, images,
                    download_filesize_mib, context, indexWritten, staticWritten >>

\* Lines 177-183.
Validate ==
    /\ pcMain = "validate"
    /\ IF inputKind = "missing"
       THEN Fail(ConfigError("Input directory does not exist"))
       ELSE IF inputKind # "dir"
       THEN Fail(ConfigError("Input directory path is not a directory"))
       ELSE pcMain' = "create_out" /\ UNCHANGED << runErr, zipfile >>
    /\ UNCHANGED << probe, args, inputKind, sources, outDirExists, image_files,
                    download_filename, lockHolder, poisoned, pc,
                    orientation, result, outfiles, wrote, images,
                    download_filesize_mib, context, indexWritten, staticWritten >>

\* Lines 185-189.
CreateOutputDir ==
    /\ pcMain = "create_out"
    /\ \/ /\ outDirExists
          /\ pcMain' = "read_dir"
          /\ UNCHANGED << outDirExists, runErr, zipfile >>
       \/ /\ ~outDirExists
          /\ outDirExists' = TRUE
          /\ pcMain' = "read_dir"
          /\ UNCHANGED << runErr, zipfile >>
       \/ /\ ~outDirExists
          /\ Fail(IoError)
          /\ UNCHANGED outDirExists
    /\ UNCHANGED << probe, args, inputKind, sources, image_files,
                    download_filename, lockHolder, poisoned, pc,
                    orientation, result, outfiles, wrote, images,
                    download_filesize_mib, context, indexWritten, staticWritten >>

\* The filters of lines 196-209 on the entries of a directory.
RetainedEntries(d) == { e \in d : Retained(e) }

\* The orders in which read_dir may list the retained entries of d.
Listings(d) ==
    LET paths == { join(args.input_dir, e.name) : e \in RetainedEntries(d) }
        n == Cardinality(paths)
    IN  { l \in [1..n -> paths] : \A a, b \in 1..n : a # b => l[a] # l[b] }

\* Lines 194-212: the directory is listed, filtered and sorted.
ReadDir ==
    /\ pcMain = "read_dir"
    /\ \/ /\ \E d \in Directories :
                 /\ sources' = RetainedEntries(d)
                 /\ \E listing \in Listings(d) :
                        image_files' = SortPaths(listing)
          /\ pcMain' = "zip_name"
          /\ UNCHANGED << runErr, zipfile >>
       \/ /\ Fail(IoError)
          /\ UNCHANGED << image_files, sources >>
    /\ UNCHANGED << probe, args, inputKind, outDirExists,
                    download_filename, lockHolder, poisoned, pc,
                    orientation, result, outfiles, wrote, images,
                    download_filesize_mib, context, indexWritten, staticWritten >>

\* Lines 214-225.
DownloadFilename ==
    /\ pcMain = "zip_name"
    /\ download_filename' =
           IF args.no_download THEN None ELSE Some(ZipName(args.title))
    /\ pcMain' = "zip_create"
    /\ UNCHANGED << probe, args, inputKind, sources, outDirExists, image_files,
                    zipfile, lockHolder, poisoned, pc,
                    orientation, result, outfiles, wrote, images,
                    download_filesize_mib, context, indexWritten, staticWritten,
                    runErr >>

\* Lines 227-236: the archive is created (File::create(..).unwrap()) and
\* the parallel map over image_files starts.
CreateZip ==
    /\ pcMain = "zip_create"
    /\ \/ /\ zipfile' = IF IsSome(download_filename)
                        THEN Some([entries |-> << >>, finalized |-> FALSE])
                        ELSE None
          /\ pcMain' = "par"
          /\ pc' = [i \in 1..Len(image_files) |-> "idle"]
          /\ orientation' = [i \in 1..Len(image_files) |-> None]
          /\ result' = [i \in 1..Len(image_files) |-> None]
       \/ /\ IsSome(download_filename)
          /\ pcMain' = "panic"
          /\ UNCHANGED << zipfile, pc, orientation, result >>
    /\ UNCHANGED << probe, args, inputKind, sources, outDirExists, image_files,
                    download_filename, lockHolder, poisoned,
                    outfiles, wrote, images,
                    download_filesize_mib, context, indexWritten, staticWritten,
                    runErr >>

\* --------------------------------------------- the closure of lines 237-304

\* What the closure never assigns.
mainVars ==
    << probe, args, inputKind, sources, outDirExists, pcMain, image_files,
       download_filename, images, download_filesize_mib, context,
       indexWritten, staticWritten, runErr >>

\* The closure of item i moves on; leaving the closure drops its locals.
Goto(i, label) ==
    /\ pc' = [pc EXCEPT ![i] = label]
    /\ IF label \in { "done", "failed", "panicked" }
       THEN orientation' = [orientation EXCEPT ![i] = None]
       ELSE UNCHANGED orientation

\* `?` inside the closure: the item's result is the error.
ItemFails(i, e) ==
    /\ result' = [result EXCEPT ![i] = Err(e)]
    /\ Goto(i, "failed")

\* fs::write and fs::copy: the file at `path` is created or replaced.
FsWrite(files, path, by, content) ==
    { r \in files : r.path # path }
        \cup { [path |-> path, by |-> by, content |-> content] }

\* Closures that are running.
Running == { i \in Items : pc[i] \notin { "idle", "done", "failed", "panicked" } }

SkipProcessingIgnored == FALSE

\* Line 249.
SkipProcessing == args.skip_processing

\* Lines 238-253: a thread of the pool takes item i; the file names are
\* derived and, unless processing is skipped, the orientation is read.
Begin(i) ==
    /\ pcMain = "par"
    /\ pc[i] = "idle"
    /\ Cardinality(Running) < NumThreads
    /\ IF ~Nameable(image_files[i])
       THEN /\ pc' = [pc EXCEPT ![i] = "panicked"]
            /\ UNCHANGED orientation
       ELSE IF SkipProcessing
       THEN /\ pc' = [pc EXCEPT ![i] = "store"]
            /\ UNCHANGED orientation
       ELSE /\ pc' = [pc EXCEPT ![i] = "thumbnail"]
            /\ \E o \in ItemOrientations :
                   orientation' = [orientation EXCEPT ![i] = Some(o)]
    /\ UNCHANGED << mainVars, zipfile, lockHolder, poisoned, result,
                    outfiles, wrote >>

ThumbnailFailureIgnored(i) ==
    /\ pc[i] = "thumbnail"
    /\ Goto(i, "full")
    /\ UNCHANGED << result, outfiles, wrote >>
    /\ UNCHANGED << mainVars, zipfile, lockHolder, poisoned >>

\* Lines 255-264: resize_image for the thumbnail, then fs::write.
Thumbnail(i) ==
    /\ pc[i] = "thumbnail"
    /\ \/ /\ LET path == join(args.output_dir, filename_thumb(image_files[i]))
             IN  /\ outfiles' = FsWrite(outfiles, path, i,
                        [how |-> "thumbnail", src |-> image_files[i],
                         call |-> ThumbnailCall(args)])
                 /\ wrote' = wrote \cup { [path |-> path, by |-> i] }
          /\ Goto(i, "full")
          /\ UNCHANGED result
       \/ /\ ItemFails(i, ImageError)
          /\ UNCHANGED << outfiles, wrote >>
       \/ /\ ItemFails(i, IoError)
          /\ UNCHANGED << outfiles, wrote >>
    /\ UNCHANGED << mainVars, zipfile, lockHolder, poisoned >>

\* Line 270.
NeedsResize(f) ==
    /\ IsSome(args.max_large_size)
    /\ \/ Entry(f).w > args.max_large_size.some
       \/ Entry(f).h > args.max_large_size.some

\* Lines 266-287: the full-size image is resized and written, or copied.
FullSize(i) ==
    /\ pc[i] = "full"
    /\ LET f == image_files[i]
           path == join(args.output_dir, filename_full(f))
       IN  \/ /\ NeedsResize(f)
              /\ \E len \in EncodedLens :
                     outfiles' = FsWrite(outfiles, path, i,
                         [how |-> "resized", src |-> f,
                          call |-> LargeCall(args),
                          len |-> len])
              /\ wrote' = wrote \cup { [path |-> path, by |-> i] }
              /\ Goto(i, "lock")
              /\ UNCHANGED result
           \/ /\ ~NeedsResize(f)
              /\ outfiles' = FsWrite(outfiles, path, i,
                     [how |-> "copy", src |-> f, len |-> Entry(f).len])
              /\ wrote' = wrote \cup { [path |-> path, by |-> i] }
              /\ Goto(i, "lock")
              /\ UNCHANGED result
           \/ /\ IsSome(args.max_large_size)
              /\ ItemFails(i, ImageError)
              /\ UNCHANGED << outfiles, wrote >>
           \/ /\ ItemFails(i, IoError)
              /\ UNCHANGED << outfiles, wrote >>
    /\ UNCHANGED << mainVars, zipfile, lockHolder, poisoned >>

\* Mutex::lock blocks while another closure holds the guard.
MutexFreeUnguarded == TRUE

MutexFree == lockHolder = 0

PanicKeepsGuard(i) ==
    /\ poisoned' = TRUE
    /\ UNCHANGED lockHolder
    /\ Goto(i, "panicked")

\* A panic while the guard is held: the guard is dropped during unwinding
\* and poisons the mutex.
PanicHoldingGuard(i) ==
    /\ poisoned' = TRUE
    /\ lockHolder' = 0
    /\ Goto(i, "panicked")

\* Line 293: zipfile.lock().expect(..).as_mut(); the guard lives to the
\* end of the `if let`.
Lock(i) ==
    /\ pc[i] = "lock"
    /\ MutexFree
    /\ \/ /\ ~poisoned
          /\ lockHolder' = i
          /\ Goto(i, IF IsSome(zipfile) THEN "start_file" ELSE "unlock")
       \/ /\ poisoned
          /\ Goto(i, "panicked")
          /\ UNCHANGED lockHolder
    /\ UNCHANGED << mainVars, zipfile, poisoned, result, outfiles, wrote >>

ArchiveEntryNameThumb(f) == filename_thumb(f)

\* The entry name given to start_file at line 294.
ArchiveEntryName(f) == filename_full(f)

\* Line 294: ZipWriter::start_file opens a new entry at the end of the
\* archive; .unwrap() panics on an error.
StartFile(i) ==
    /\ pc[i] = "start_file"
    /\ \/ /\ zipfile' = Some([zipfile.some EXCEPT !.entries =
                 Append(@, [name |-> ArchiveEntryName(image_files[i]),
                            len |-> 0, data |-> << >>])])
          /\ Goto(i, "write_all")
          /\ UNCHANGED << lockHolder, poisoned >>
       \/ /\ PanicHoldingGuard(i)
          /\ UNCHANGED zipfile
    /\ UNCHANGED << mainVars, result, outfiles, wrote >>

\* fs::read of full_path: what is at that path now.
FileAt(path) == CHOOSE r \in outfiles : r.path = path

\* Line 295: the bytes of full_path are written to the entry that is open,
\* the last one started; either .unwrap() panics on an error.
WriteAll(i) ==
    /\ pc[i] = "write_all"
    /\ \/ /\ LET file == FileAt(join(args.output_dir, filename_full(image_files[i])))
                 last == Len(zipfile.some.entries)
             IN  zipfile' = Some([zipfile.some EXCEPT
                     !.entries[last].len = @ + file.content.len,
                     !.entries[last].data = Append(@, file.content.src)])
          /\ Goto(i, "unlock")
          /\ UNCHANGED << lockHolder, poisoned >>
       \/ /\ PanicHoldingGuard(i)
          /\ UNCHANGED zipfile
    /\ UNCHANGED << mainVars, result, outfiles, wrote >>

\* Line 296: the guard is dropped.
Unlock(i) ==
    /\ pc[i] = "unlock"
    /\ lockHolder' = 0
    /\ Goto(i, "store")
    /\ UNCHANGED << mainVars, zipfile, poisoned, result, outfiles, wrote >>

\* Lines 299-303.
Store(i) ==
    /\ pc[i] = "store"
    /\ result' = [result EXCEPT ![i] = Ok(ImageOf(image_files[i]))]
    /\ Goto(i, "done")
    /\ UNCHANGED << mainVars, zipfile, lockHolder, poisoned, outfiles, wrote >>

\* --------------------------------------------------- main, from line 305

\* No closure is running: every item is finished or was never started.
Quiescent == Running = {}

\* Ok values in item order.
OkValues(rs) ==
    LET oks == SelectSeq(rs, IsOk) IN [k \in 1..Len(oks) |-> oks[k].ok]

CollectIgnoringErrors(rs) == { Ok(OkValues(rs)) }

\* collect::<Result<Vec<_>>>(): an error of some item if one failed,
\* otherwise the values in the order of the items.
Collect(rs) ==
    IF \E k \in 1..Len(rs) : IsErr(rs[k])
    THEN { Err(rs[k].err) : k \in { j \in 1..Len(rs) : IsErr(rs[j]) } }
    ELSE { Ok(OkValues(rs)) }

\* Line 305: the parallel map ends. Items not yet started when another
\* item failed may be skipped; a panic of a closure is resumed in main.
Join ==
    /\ pcMain = "par"
    /\ Quiescent
    /\ \/ \A i \in Items : pc[i] = "done"
       \/ \E i \in Items : pc[i] \in { "failed", "panicked" }
    /\ IF \E i \in Items : pc[i] = "panicked"
       THEN /\ Returns("panic")
            /\ UNCHANGED << images, runErr >>
       ELSE \E r \in Collect(result) :
                IF IsErr(r)
                THEN /\ Fail(r.err)
                     /\ UNCHANGED images
                ELSE /\ images' = Some(r.ok)
                     /\ pcMain' = "filesize"
                     /\ UNCHANGED << runErr, zipfile >>
    /\ UNCHANGED << probe, args, inputKind, sources, outDirExists, image_files,
                    download_filename, lockHolder, poisoned, pc,
                    orientation, result, outfiles, wrote,
                    download_filesize_mib, context, indexWritten, staticWritten >>

\* Lines 307-310: the length of the archive file as it is now.
MeasureArchive ==
    /\ pcMain = "filesize"
    /\ download_filesize_mib' =
           IF IsSome(download_filename)
           THEN Some(CeilMiB(ZipFileLen(zipfile.some)))
           ELSE None
    /\ pcMain' = "context"
    /\ UNCHANGED << probe, args, inputKind, sources, outDirExists, image_files,
                    download_filename, zipfile, lockHolder, poisoned, pc,
                    orientation, result, outfiles, wrote, images,
                    context, indexWritten, staticWritten, runErr >>

\* Lines 312-320.
BuildContext ==
    /\ pcMain = "context"
    /\ context' = Some([title |-> args.title,
                        images |-> images.some,
                        download_filename |-> download_filename,
                        download_filesize_mib |-> download_filesize_mib])
    /\ pcMain' = "render"
    /\ UNCHANGED << probe, args, inputKind, sources, outDirExists, image_files,
                    download_filename, zipfile, lockHolder, poisoned, pc,
                    orientation, result, outfiles, wrote, images,
                    download_filesize_mib, indexWritten, staticWritten, runErr >>

\* Lines 322-337.
RenderIndex ==
    /\ pcMain = "render"
    /\ \/ /\ indexWritten' = TRUE
          /\ pcMain' = "static"
          /\ UNCHANGED << runErr, zipfile >>
       \/ /\ Fail(RenderError)
          /\ UNCHANGED indexWritten
       \/ /\ Fail(IoError)
          /\ UNCHANGED indexWritten
    /\ UNCHANGED << probe, args, inputKind, sources, outDirExists, image_files,
                    download_filename, lockHolder, poisoned, pc,
                    orientation, result, outfiles, wrote, images,
                    download_filesize_mib, context, staticWritten >>

\* Lines 339-357: the static files are written and main returns Ok(()).
WriteStatic ==
    /\ pcMain = "static"
    /\ \/ /\ staticWritten' = TRUE
          /\ Returns("done")
          /\ UNCHANGED runErr
       \/ /\ Fail(IoError)
          /\ UNCHANGED staticWritten
    /\ UNCHANGED << probe, args, inputKind, sources, outDirExists, image_files,
                    download_filename, lockHolder, poisoned, pc,
                    orientation, result, outfiles, wrote, images,
                    download_filesize_mib, context, indexWritten >>

Next ==
    \/ Validate
    \/ CreateOutputDir
    \/ ReadDir
    \/ DownloadFilename
    \/ CreateZip
    \/ \E i \in Items : Begin(i)
    \/ \E i \in Items : Thumbnail(i)
    \/ \E i \in Items : FullSize(i)
    \/ \E i \in Items : Lock(i)
    \/ \E i \in Items : StartFile(i)
    \/ \E i \in Items : WriteAll(i)
    \/ \E i \in Items : Unlock(i)
    \/ \E i \in Items : Store(i)
    \/ Join
    \/ MeasureArchive
    \/ BuildContext
    \/ RenderIndex
    \/ WriteStatic

Spec == Init /\ [][Next]_vars

\* The threads of main and of the pool are scheduled by the operating
\* system: as long as some thread can take a step, a step is taken.
FairSpec == Spec /\ WF_vars(Next)

\* ------------------------------------- get_orientation applied on its own

InitOrientation ==
    /\ args \in { a \in ArgsSet : ~a.skip_processing /\ ~a.no_download
                                  /\ a.max_large_size = None }
    /\ inputKind = "dir"
    /\ outDirExists = TRUE
    /\ NotStarted
    /\ probe \in { [exif |-> e, result |-> None, orientation |-> None] :
                     e \in ExifStates }

\* Line 253 on the EXIF data of the probe: get_orientation, then unwrap_or.
ApplyOrientation ==
    /\ probe # None
    /\ probe.orientation = None
    /\ probe' = [probe EXCEPT
           !.result = Some(get_orientation(probe.exif)),
           !.orientation = Some(ItemOrientation(probe.exif))]
    /\ UNCHANGED << args, inputKind, sources, outDirExists, pcMain,
                    image_files, download_filename, zipfile, lockHolder,
                    poisoned, pc, orientation, result, outfiles, wrote,
                    images, download_filesize_mib, context, indexWritten,
                    staticWritten, runErr >>

NextOrientation == ApplyOrientation

SpecOrientation == InitOrientation /\ [][NextOrientation]_vars

\* --------------------------------------- resize_image applied on its own

\* Source dimensions tried: at, just above and below the panorama ratio,
\* portrait, smaller than every box, and very flat.
ProbeDims ==
    { << 4000, 2000 >>, << 4001, 2000 >>, << 800, 600 >>, << 5000, 1000 >>,
      << 600, 800 >>, << 1000, 333 >>, << 10, 10 >>, << 9000, 2 >> }

ProbeBoxes == { << 1200, 300 >>, << 1024, 1024 >> }

ProbeThumbnailHeights == { 300, 100, 1 }

Orientations == { "Deg0", "Deg90", "Deg180", "Deg270" }

InitResize ==
    /\ args \in { [a EXCEPT !.thumbnail_height = t] :
                     a \in { b \in ArgsSet : ~b.skip_processing /\ ~b.no_download
                                              /\ b.max_large_size = None },
                     t \in ProbeThumbnailHeights }
    /\ inputKind = "dir"
    /\ outDirExists = TRUE
    /\ NotStarted
    /\ probe \in
         { [fn |-> "resize_image", dims |-> d, max_width |-> b[1],
            max_height |-> b[2], orientation |-> o, panorama_detection |-> e,
            out |-> None] :
              d \in ProbeDims, b \in ProbeBoxes, o \in Orientations, e \in BOOLEAN }
         \cup
         { [fn |-> "thumbnail", dims |-> d, orientation |-> o, call |-> None,
            out |-> None] :
              d \in ProbeDims, o \in Orientations }

\* resize_image on the arguments of the probe.
ApplyResize ==
    /\ probe # None
    /\ probe.fn = "resize_image"
    /\ probe.out = None
    /\ probe' = [probe EXCEPT
           !.out = Some(resize_image(probe.dims, probe.max_width, probe.max_height,
                                     probe.orientation, probe.panorama_detection))]
    /\ UNCHANGED << args, inputKind, sources, outDirExists, pcMain,
                    image_files, download_filename, zipfile, lockHolder,
                    poisoned, pc, orientation, result, outfiles, wrote,
                    images, download_filesize_mib, context, indexWritten,
                    staticWritten, runErr >>

\* Lines 256-262 on the image of the probe: the thumbnail's resize_image.
ApplyThumbnail ==
    /\ probe # None
    /\ probe.fn = "thumbnail"
    /\ probe.out = None
    /\ LET call == ThumbnailCall(args)
       IN  probe' = [probe EXCEPT
               !.call = Some(call),
               !.out = Some(resize_image(probe.dims, call.max_width, call.max_height,
                                         probe.orientation, call.panorama_detection))]
    /\ UNCHANGED << args, inputKind, sources, outDirExists, pcMain,
                    image_files, download_filename, zipfile, lockHolder,
                    poisoned, pc, orientation, result, outfiles, wrote,
                    images, download_filesize_mib, context, indexWritten,
                    staticWritten, runErr >>

NextResize == ApplyResize \/ ApplyThumbnail

SpecResize == InitResize /\ [][NextResize]_vars

\* ------------------------------- the names of lines 238-246 on their own

\* Longest part of a tried file name before its .jpg or .JPG.
MaxStem == 3

StemChars == { "a", "b", "." }

\* File names the filter of lines 203-209 retains.
ProbeNames ==
    { front \o ext :
        front \in UNION { [1..n -> StemChars] : n \in 0..MaxStem },
        ext \in { Ext_jpg, Ext_JPG } }

InitNames ==
    /\ args \in { a \in ArgsSet : ~a.skip_processing /\ ~a.no_download
                                  /\ a.max_large_size = None }
    /\ inputKind = "dir"
    /\ outDirExists = TRUE
    /\ NotStarted
    /\ probe \in { [fn |-> "names", f |-> join(args.input_dir, n), out |-> None] :
                     n \in ProbeNames }

\* Lines 238-246 and 300-303 on the path of the probe.
ApplyNames ==
    /\ probe # None
    /\ probe.fn = "names"
    /\ probe.out = None
    /\ probe' = [probe EXCEPT !.out = Some(ImageOf(probe.f))]
    /\ UNCHANGED << args, inputKind, sources, outDirExists, pcMain,
                    image_files, download_filename, zipfile, lockHolder,
                    poisoned, pc, orientation, result, outfiles, wrote,
                    images, download_filesize_mib, context, indexWritten,
                    staticWritten, runErr >>

NextNames == ApplyNames

SpecNames == InitNames /\ [][NextNames]_vars

\* ------------------------------ the archive name of lines 214-225 alone

\* Longest title tried.
MaxTitle == 3

\* Characters of the titles tried: kept ones, the space, the path
\* separator, punctuation that is dropped, and a letter outside ASCII.
TitleChars == { " ", "/", "!", "a", "2", "-", ".", "_", "U+00E9" }

ProbeTitles ==
    Titles \cup UNION { [1..n -> TitleChars] : n \in 0..MaxTitle }

InitZipName ==
    /\ args \in { [a EXCEPT !.title = t] :
                     a \in { b \in ArgsSet : ~b.skip_processing /\ ~b.no_download
                                              /\ b.max_large_size = None },
                     t \in ProbeTitles }
    /\ inputKind = "dir"
    /\ outDirExists = TRUE
    /\ NotStarted
    /\ probe = [fn |-> "zip_name", out |-> None]

\* Lines 214-225 for the title of the command line.
ApplyZipName ==
    /\ probe # None
    /\ probe.fn = "zip_name"
    /\ probe.out = None
    /\ probe' = [probe EXCEPT
           !.out = Some(IF args.no_download THEN None ELSE Some(ZipName(args.title)))]
    /\ UNCHANGED << args, inputKind, sources, outDirExists, pcMain,
                    image_files, download_filename, zipfile, lockHolder,
                    poisoned, pc, orientation, result, outfiles, wrote,
                    images, download_filesize_mib, context, indexWritten,
                    staticWritten, runErr >>

NextZipName == ApplyZipName

SpecZipName == InitZipName /\ [][NextZipName]_vars

\* ------------------------------- the listing of lines 194-212 on its own

Name_f_Jpg == << "f", ".", "J", "p", "g" >>
Name_g_jpg == << "g", ".", "j", "p", "g" >>
Name_h_jpg == << "h", ".", "j", "p", "g" >>
Name_i_jpg == << "i", ".", "j", "p", "g" >>

\* More candidate entries: a mixed-case suffix, an entry whose iterator
\* item is an error, one whose file_type() fails, and a symlink to a JPEG.
ProbeDirPool ==
    DirPool \cup
    { DirEntry(Name_f_Jpg, "ok", "file", 1000, 800, 600),
      DirEntry(Name_g_jpg, "err", "file", 1000, 800, 600),
      DirEntry(Name_h_jpg, "ok", "err", 1000, 800, 600),
      DirEntry(Name_i_jpg, "ok", "symlink", 1000, 800, 600) }

ProbeDirectories == { d \in SUBSET ProbeDirPool : Cardinality(d) <= MaxEntries }

InitReadDir ==
    /\ args \in { a \in ArgsSet : ~a.skip_processing /\ ~a.no_download
                                  /\ a.max_large_size = None }
    /\ inputKind = "dir"
    /\ outDirExists = TRUE
    /\ NotStarted
    /\ probe \in { [fn |-> "read_dir", dir |-> d, out |-> None] :
                     d \in ProbeDirectories }

\* Lines 194-212 on the directory of the probe, when read_dir itself
\* succeeds: the entries come in any order, are filtered, and are sorted.
ApplyReadDir ==
    /\ probe # None
    /\ probe.fn = "read_dir"
    /\ probe.out = None
    /\ \E listing \in Listings(probe.dir) :
           probe' = [probe EXCEPT !.out = Some(SortPaths(listing))]
    /\ UNCHANGED << args, inputKind, sources, outDirExists, pcMain,
                    image_files, download_filename, zipfile, lockHolder,
                    poisoned, pc, orientation, result, outfiles, wrote,
                    images, download_filesize_mib, context, indexWritten,
                    staticWritten, runErr >>

NextReadDir == ApplyReadDir

SpecReadDir == InitReadDir /\ [][NextReadDir]_vars

\* ------------------------------------------------------------- properties

\* The names of the retained input files.
SourceNames == { e.name : e \in sources }

Finished(i) == pc[i] \in { "failed", "panicked" }

\* C1: once the items are collected, the manifest's image list has one
\* entry per retained input file and the entries are in ascending
\* lexicographic order of the file names, whatever order the items
\* completed in.
C1_ManifestInSortedOrder ==
    IsSome(images) =>
        LET imgs == images.some
        IN  /\ Len(imgs) = Cardinality(sources)
            /\ { imgs[k].filename_full : k \in 1..Len(imgs) } = SourceNames
            /\ \A a, b \in 1..Len(imgs) :
                   a < b => StrLess(imgs[a].filename_full, imgs[b].filename_full)
            /\ IsSome(context) => context.some.images = imgs

\* A successful run over three files whose archive entries, appended in
\* completion order, start with another file than the manifest does.
C1_Witness ==
    /\ pcMain = "done"
    /\ Len(images.some) = 3
    /\ IsSome(zipfile)
    /\ Len(zipfile.some.entries) = 3
    /\ zipfile.some.entries[1].name # images.some[1].filename_full
    /\ zipfile.some.entries[3].name = images.some[1].filename_full

\* C2: after a successful run with archiving enabled and processing not
\* skipped, the archive has exactly as many entries as there are source
\* images and, for each image, exactly one entry named with its
\* filename_full, holding the bytes of that image's full-size file.
C2_ArchiveOneEntryPerImage ==
    (pcMain = "done" /\ ~args.no_download /\ ~args.skip_processing) =>
        LET es == zipfile.some.entries
        IN  /\ Len(es) = Len(image_files)
            /\ Len(es) = Cardinality(sources)
            /\ \A i \in 1..Len(image_files) :
                   LET mine == { k \in 1..Len(es) :
                                   es[k].name = images.some[i].filename_full }
                   IN  /\ Cardinality(mine) = 1
                       /\ \A k \in mine : es[k].data = << image_files[i] >>

C2_Witness ==
    /\ pcMain = "done"
    /\ ~args.no_download
    /\ ~args.skip_processing
    /\ Len(image_files) = 3
    /\ Len(zipfile.some.entries) = 3

\* C3: at most one closure is between locking the archive and leaving the
\* `if let` of lines 293-296, so at most one is between start_file and the
\* end of write_all, and no entry of the archive holds bytes of a file
\* other than the one it is named after.
C3_AppendsMutuallyExclusive ==
    /\ Cardinality({ i \in Items : pc[i] \in { "start_file", "write_all", "unlock" } }) <= 1
    /\ IsSome(zipfile) =>
           \A k \in 1..Len(zipfile.some.entries) :
               LET e == zipfile.some.entries[k]
               IN  \/ e.data = << >>
                   \/ /\ Len(e.data) = 1
                      /\ file_name(e.data[1]) = e.name

\* One closure has opened its entry and another waits for the lock.
C3_Witness ==
    \E i, j \in Items :
        /\ i # j
        /\ pc[i] = "write_all"
        /\ pc[j] = "lock"
        /\ lockHolder = i

\* C4: once an item has failed (its closure returned an error or
\* panicked), the image list is never collected, the template context is
\* never built, index.html is never written, and main is either still in
\* the parallel map or has ended with an error or a panic.
C4_NoPartialSuccess ==
    (\E i \in Items : Finished(i)) =>
        /\ images = None
        /\ context = None
        /\ ~indexWritten
        /\ pcMain \in { "par", "error", "panic" }

\* The run ended with an error although another item completed.
C4_Witness ==
    /\ pcMain = "error"
    /\ \E i, j \in Items : pc[i] = "failed" /\ pc[j] = "done"
    /\ images = None

\* C5: when the run ends with the error of a failed decode, resize or
\* encode, that error names the path of a source image whose closure
\* failed.
C5_ErrorNamesOffendingPath ==
    (pcMain = "error" /\ IsSome(runErr) /\ runErr.some.kind = "image") =>
        \E i \in Items :
            /\ IsErr(result[i])
            /\ runErr.some.path = Some(image_files[i])

\* C6: with --skip-processing no output file is ever written and no
\* archive entry is ever appended, and the collected image list has, for
\* each retained file in ascending order of the names, its file name and
\* its stem followed by ".thumb.jpg".
C6_SkipProcessingWritesNothing ==
    args.skip_processing =>
        /\ wrote = {}
        /\ outfiles = {}
        /\ IsSome(zipfile) => zipfile.some.entries = << >>
        /\ IsSome(images) =>
               /\ Len(images.some) = Cardinality(sources)
               /\ \A k \in 1..Len(images.some) :
                      /\ images.some[k].filename_full \in SourceNames
                      /\ images.some[k].filename_thumb =
                             file_stem(join(args.input_dir, images.some[k].filename_full))
                                 \o << ".", "t", "h", "u", "m", "b", ".", "j", "p", "g" >>
               /\ \A a, b \in 1..Len(images.some) :
                      a < b => StrLess(images.some[a].filename_full,
                                       images.some[b].filename_full)

C6_Witness ==
    /\ args.skip_processing
    /\ ~args.no_download
    /\ pcMain = "done"
    /\ Len(context.some.images) = 3

\* C7: once the archive is finalized nothing can write to it any more (no
\* closure is running and main has ended), and the archive has been
\* finalized whenever main is past the parallel map (measuring the
\* archive, building the context, rendering, done).
C7_FinalizedBeforeManifest ==
    IsSome(zipfile) =>
        /\ zipfile.some.finalized =>
               /\ Running = {}
               /\ pcMain \in { "done", "error", "panic" }
        /\ pcMain \in { "filesize", "context", "render", "static", "done" }
               => zipfile.some.finalized

\* C8: after a successful run the context has download_filename and
\* download_filesize_mib exactly when archiving is enabled, and
\* download_filesize_mib is the least whole number of MiB that is not less
\* than the length of the archive file on disk.
C8_FilesizeIsArchiveSize ==
    pcMain = "done" =>
        /\ IsSome(context.some.download_filename) <=> ~args.no_download
        /\ IsSome(context.some.download_filesize_mib) <=> ~args.no_download
        /\ ~args.no_download =>
               LET bytes == ZipFileLen(zipfile.some)
                   mib == context.some.download_filesize_mib.some
               IN  /\ mib * MiB >= bytes
                   /\ mib = 0 \/ (mib - 1) * MiB < bytes

\* C9: no output path is written by two different closures.
C9_NoSharedOutputPath ==
    \A r1, r2 \in wrote : r1.path = r2.path => r1.by = r2.by

\* C10: the orientation used for an item is 0 degrees for tag 1, 90 for 8,
\* 180 for 3, 270 for 6, and 0 degrees for every other value, for a field
\* that is not a list of shorts or is empty, for a missing field and for
\* a failure to open or parse the file; line 253 always yields an
\* orientation, also when get_orientation returns an error.
C10_OrientationTotal ==
    (probe # None /\ IsSome(probe.orientation)) =>
        LET e == probe.exif
            hasTag == /\ e.read = "ok"
                      /\ IsSome(e.field)
                      /\ e.field.some.type = "Short"
                      /\ Len(e.field.some.data) >= 1
            tag == e.field.some.data[1]
            o == probe.orientation.some
        IN  /\ o \in { "Deg0", "Deg90", "Deg180", "Deg270" }
            /\ (hasTag /\ tag = 1) => o = "Deg0"
            /\ (hasTag /\ tag = 8) => o = "Deg90"
            /\ (hasTag /\ tag = 3) => o = "Deg180"
            /\ (hasTag /\ tag = 6) => o = "Deg270"
            /\ (hasTag /\ tag \notin { 1, 3, 6, 8 }) => o = "Deg0"
            /\ ~hasTag => o = "Deg0"
            /\ e.read # "ok" => IsErr(probe.result.some)

\* The file could not be opened, get_orientation returned an error and
\* the item still got an orientation.
C10_Witness ==
    /\ probe # None
    /\ probe.exif.read = "open_failed"
    /\ IsSome(probe.result)
    /\ IsErr(probe.result.some)
    /\ probe.orientation = Some("Deg0")

\* C11: resize_image takes an image for a panorama exactly when its width
\* is strictly more than twice its height.  A panorama with the exemption
\* requested is neither rotated nor resized and keeps its dimensions; every
\* other image is rotated as its orientation asks (a quarter turn swaps the
\* sides) and then resized into the box max_width x max_height.
C11_PanoramaExemption ==
    (probe # None /\ "fn" \in DOMAIN probe /\ probe.fn = "resize_image"
       /\ probe.out # None) =>
        LET w == probe.dims[1]
            h == probe.dims[2]
            out == probe.out.some
            turned == IF probe.orientation \in { "Deg90", "Deg270" }
                      THEN << h, w >> ELSE << w, h >>
        IN  /\ out.is_panorama <=> (w > 2 * h)
            /\ (w = 2 * h) => ~out.is_panorama
            /\ (w > 2 * h /\ probe.panorama_detection) =>
                   /\ out.rotation = "none"
                   /\ ~out.resized
                   /\ out.dims = << w, h >>
            /\ ~(w > 2 * h /\ probe.panorama_detection) =>
                   /\ out.resized
                   /\ (out.rotation = "none") <=> (probe.orientation = "Deg0")
                   /\ out.dims[1] <= probe.max_width
                   /\ out.dims[2] <= probe.max_height
                   /\ \/ out.dims[1] = probe.max_width
                      \/ out.dims[2] = probe.max_height
                   \* the sides keep the ratio of the turned image, to the pixel
                   /\ \/ 2 * out.dims[1] * turned[2] - 2 * out.dims[2] * turned[1]
                            \in (0 - (turned[1] + turned[2]))..(turned[1] + turned[2])
                      \/ out.dims[1] = 1
                      \/ out.dims[2] = 1

\* A 4001x2000 panorama with the exemption is returned 4001x2000, and a
\* 4000x2000 image with the exemption requested has been resized.
C11_Witness ==
    /\ probe # None /\ "fn" \in DOMAIN probe /\ probe.fn = "resize_image"
    /\ probe.out # None
    /\ probe.dims = << 4001, 2000 >>
    /\ probe.panorama_detection
    /\ probe.orientation = "Deg90"
    /\ probe.out.some.dims = << 4001, 2000 >>


\* The full-size files in the output directory.
FullFiles == { r \in outfiles : r.content.how # "thumbnail" }

\* Whether the image behind a full-size file needs no resize: no maximum
\* dimension is set, or both sides are within it.
WithinMax(r) ==
    \/ args.max_large_size = None
    \/ /\ Entry(r.content.src).w <= args.max_large_size.some
       /\ Entry(r.content.src).h <= args.max_large_size.some

\* C12 as claimed: a full-size file is a byte copy of its source when no
\* maximum dimension is set or both sides are within it, and a re-encoded
\* resize into the box max x max otherwise; the resize has the panorama
\* exemption only when the command line asks for it.
C12_ExemptionOnlyWhenEnabled ==
    \A r \in FullFiles :
        /\ WithinMax(r) =>
               /\ r.content.how = "copy"
               /\ r.content.len = Entry(r.content.src).len
        /\ ~WithinMax(r) =>
               /\ r.content.how = "resized"
               /\ r.content.call.max_width = args.max_large_size.some
               /\ r.content.call.max_height = args.max_large_size.some
               /\ r.content.call.panorama_detection => args.resize_include_panorama

\* C12, amended: as above, but the resize has the panorama exemption
\* unless --resize-include-panorama is given: the exemption is the default
\* and the option turns it off.
C12_ExemptionUnlessIncluded ==
    \A r \in FullFiles :
        /\ WithinMax(r) =>
               /\ r.content.how = "copy"
               /\ r.content.src.name = r.path.name
               /\ r.content.len = Entry(r.content.src).len
        /\ ~WithinMax(r) =>
               /\ r.content.how = "resized"
               /\ r.content.call.max_width = args.max_large_size.some
               /\ r.content.call.max_height = args.max_large_size.some
               /\ r.content.call.panorama_detection <=> ~args.resize_include_panorama

\* With --max-large-size 1024 and --resize-include-panorama, the 800x600
\* a.JPG has been copied and the 5000x1000 b.jpg has been resized without
\* the exemption.
C12_Witness ==
    /\ args.max_large_size = Some(1024)
    /\ args.resize_include_panorama
    /\ \E r \in FullFiles : r.path.name = Name_a_JPG /\ r.content.how = "copy"
    /\ \E r \in FullFiles :
           /\ r.path.name = Name_b_jpg
           /\ r.content.how = "resized"
           /\ ~r.content.call.panorama_detection

\* C13: filename_full is the file name unchanged; filename_thumb is the
\* stem (the name without its last extension; a name that is only an
\* extension, like ".jpg", is its own stem) followed by ".thumb.jpg", so
\* that cutting ".thumb.jpg" off gives the stem back; and the name that
\* differs only in the case of its extension has the same filename_thumb.
C13_ThumbNameFromStem ==
    (probe # None /\ "fn" \in DOMAIN probe /\ probe.fn = "names"
       /\ probe.out # None) =>
        LET name == probe.f.name
            n == Len(name)
            stem == IF n > 4 THEN SubSeq(name, 1, n - 4) ELSE name
            thumb == probe.out.some.filename_thumb
            tail == << ".", "t", "h", "u", "m", "b", ".", "j", "p", "g" >>
            twin == SubSeq(name, 1, n - 4) \o
                        (IF SubSeq(name, n - 3, n) = << ".", "j", "p", "g" >>
                         THEN << ".", "J", "P", "G" >>
                         ELSE << ".", "j", "p", "g" >>)
        IN  /\ probe.out.some.filename_full = name
            /\ Len(thumb) = Len(stem) + 10
            /\ SubSeq(thumb, Len(thumb) - 9, Len(thumb)) = tail
            /\ SubSeq(thumb, 1, Len(thumb) - 10) = stem
            /\ n > 4 => filename_thumb(join(probe.f.parent, twin)) = thumb

\* a.b.JPG has been given the names a.b.JPG and a.b.thumb.jpg.
C13_Witness ==
    /\ probe # None /\ "fn" \in DOMAIN probe /\ probe.fn = "names"
    /\ probe.out # None
    /\ probe.f.name = << "a", ".", "b", ".", "J", "P", "G" >>
    /\ probe.out.some.filename_thumb =
           << "a", ".", "b", ".", "t", "h", "u", "m", "b", ".", "j", "p", "g" >>

\* C14: validation is the first step of a run.  When the input path is
\* missing or is not a directory that step fails with a configuration
\* error, and at that moment the run has not created the output directory,
\* the archive or any output file, and it does nothing afterwards.  Every
\* retained path has a file name and a stem that can be extracted, so no
\* run fails on naming a path.
C14_ConfigErrorsBeforeOutput ==
    [][ /\ pcMain' # "validate"
        /\ (pcMain = "validate" /\ inputKind # "dir") =>
               /\ pcMain' = "error"
               /\ runErr' # None
               /\ runErr'.some.kind = "config"
        /\ (runErr' # None /\ runErr'.some.kind = "config") =>
               /\ pcMain = "validate"
               /\ outDirExists' = outDirExists
               /\ zipfile' = None
               /\ outfiles' = {}
               /\ wrote' = {}
               /\ ~indexWritten'
               /\ ~staticWritten'
        /\ \A k \in DOMAIN image_files' :
               /\ to_str(image_files'[k].name) # None
               /\ Len(file_stem(image_files'[k])) > 0
               /\ to_str(file_stem(image_files'[k])) # None
        /\ \A k \in DOMAIN pc' :
               pc'[k] = "panicked" => pc[k] \in { "panicked", "lock", "start_file", "write_all" }
      ]_vars

\* A run whose input path is a file has failed, and the output directory
\* that did not exist still does not.
C14_Witness ==
    /\ inputKind = "file"
    /\ pcMain = "error"
    /\ runErr = Some(ConfigError("Input directory path is not a directory"))
    /\ ~outDirExists
    /\ ~args.no_download
    /\ zipfile = None

\* The title read character by character: a space gives an underscore, an
\* ASCII letter or digit, '.', '_' or '-' is kept, anything else is left out.
RECURSIVE SanitizedTitle(_)
SanitizedTitle(t) ==
    IF t = << >> THEN << >>
    ELSE LET c == Head(t)
         IN  (IF c = " " THEN << "_" >>
              ELSE IF c \in { "0", "2", "4", "M", "T", "a", "i", "p", "r", "y",
                              ".", "_", "-" }
              THEN << c >>
              ELSE << >>) \o SanitizedTitle(Tail(t))

\* C15: the archive name is the title with each space replaced by an
\* underscore and every character other than an ASCII letter, a digit,
\* '.', '_' or '-' removed, followed by ".zip"; "My Trip 2024" gives
\* "My_Trip_2024.zip"; the name holds no path separator and no space.
C15_ArchiveNameSanitized ==
    (probe # None /\ "fn" \in DOMAIN probe /\ probe.fn = "zip_name"
       /\ probe.out # None) =>
        LET name == probe.out.some.some
        IN  /\ name = SanitizedTitle(args.title) \o << ".", "z", "i", "p" >>
            /\ \A k \in 1..Len(name) : name[k] \notin { "/", " " }
            /\ args.title = << "M", "y", " ", "T", "r", "i", "p", " ", "2", "0", "2", "4" >>
                   => name = << "M", "y", "_", "T", "r", "i", "p", "_", "2", "0", "2", "4",
                                ".", "z", "i", "p" >>

\* The title "a/ " has been given the archive name "a_.zip".
C15_Witness ==
    /\ probe # None /\ "fn" \in DOMAIN probe /\ probe.fn = "zip_name"
    /\ probe.out # None
    /\ args.title = << "a", "/", " " >>
    /\ probe.out.some.some = << "a", "_", ".", "z", "i", "p" >>

\* The file names of a list of paths.
NamesOf(paths) == { paths[k].name : k \in 1..Len(paths) }

\* Whether the last four characters of a name are .jpg or .JPG.
JpgSuffix(name) ==
    /\ Len(name) >= 4
    /\ SubSeq(name, Len(name) - 3, Len(name))
           \in { << ".", "j", "p", "g" >>, << ".", "J", "P", "G" >> }

\* C16 as claimed: the files retained are exactly the entries of the input
\* directory that could be read, are regular files and have a name ending
\* in .jpg or .JPG; each is retained once, as a path in the input directory.
C16_RetainedExactlyJpgFiles ==
    (probe # None /\ "fn" \in DOMAIN probe /\ probe.fn = "read_dir"
       /\ probe.out # None) =>
        /\ NamesOf(probe.out.some) =
               { e.name : e \in { x \in probe.dir :
                     x.res = "ok" /\ x.file_type = "file" /\ JpgSuffix(x.name) } }
        /\ Cardinality(NamesOf(probe.out.some)) = Len(probe.out.some)
        /\ \A k \in 1..Len(probe.out.some) : probe.out.some[k].parent = args.input_dir

\* C16, amended: the files retained are exactly the entries that could be
\* read, are regular files and have a name that is valid UTF-8 and ends in
\* .jpg or .JPG; subdirectories, symlinks, other suffixes such as .Jpg,
\* names that are not UTF-8 and entries that cannot be read are left out,
\* and the listing succeeds all the same.
C16_RetainedUtf8JpgFiles ==
    (probe # None /\ "fn" \in DOMAIN probe /\ probe.fn = "read_dir"
       /\ probe.out # None) =>
        /\ NamesOf(probe.out.some) =
               { e.name : e \in { x \in probe.dir :
                     /\ x.res = "ok"
                     /\ x.file_type = "file"
                     /\ JpgSuffix(x.name)
                     /\ \A k \in 1..Len(x.name) : x.name[k] # "0xFF" } }
        /\ Cardinality(NamesOf(probe.out.some)) = Len(probe.out.some)
        /\ \A k \in 1..Len(probe.out.some) : probe.out.some[k].parent = args.input_dir

\* The directory holding f.Jpg, the subdirectory d.jpg and a.jpg has been
\* listed, and a.jpg alone is retained.
C16_Witness ==
    /\ probe # None /\ "fn" \in DOMAIN probe /\ probe.fn = "read_dir"
    /\ probe.out # None
    /\ { e.name : e \in probe.dir } = { Name_f_Jpg, Name_d_jpg, Name_a_jpg }
    /\ probe.out.some = << join(args.input_dir, Name_a_jpg) >>

\* C17: when the archive is enabled and a run ends with no entry appended
\* (no retained file, or --skip-processing), the archive file exists and is
\* finalized with no entry, no closure has failed, and the context names
\* the archive and gives its size: the whole mebibytes, rounded up, of
\* the archive file.
C17_EmptyArchiveReported ==
    (/\ ~args.no_download
     /\ pcMain = "done"
     /\ args.skip_processing \/ image_files = << >>) =>
        /\ zipfile # None
        /\ zipfile.some.entries = << >>
        /\ zipfile.some.finalized
        /\ \A k \in DOMAIN pc : pc[k] = "done"
        /\ indexWritten
        /\ context.some.download_filename =
               Some(<< "M", "y", "_", "T", "r", "i", "p", "_", "2", "0", "2", "4",
                       ".", "z", "i", "p" >>)
        /\ context.some.download_filesize_mib # None
        /\ LET bytes == ZipFileLen(zipfile.some)
               mib == context.some.download_filesize_mib.some
           IN  /\ mib * 1048576 >= bytes
               /\ (mib - 1) * 1048576 < bytes

\* C18: a thumbnail is made with a box 4 x bound wide and bound high and
\* without the panorama exemption: the image is always rotated as its
\* orientation asks and resized, the result fits the box, touches it on
\* one side and keeps the ratio of the sides to the pixel; 4000x2000 with
\* bound 300 gives 600x300.
C18_ThumbnailBox ==
    (probe # None /\ "fn" \in DOMAIN probe /\ probe.fn = "thumbnail"
       /\ probe.out # None) =>
        LET bound == args.thumbnail_height
            out == probe.out.some
            call == probe.call.some
            turned == IF probe.orientation \in { "Deg90", "Deg270" }
                      THEN << probe.dims[2], probe.dims[1] >> ELSE probe.dims
        IN  /\ call.max_width = 4 * bound
            /\ call.max_height = bound
            /\ ~call.panorama_detection
            /\ out.resized
            /\ (out.rotation = "none") <=> (probe.orientation = "Deg0")
            /\ out.dims[1] >= 1 /\ out.dims[1] <= 4 * bound
            /\ out.dims[2] >= 1 /\ out.dims[2] <= bound
            /\ out.dims[1] = 4 * bound \/ out.dims[2] = bound
            /\ \/ 2 * out.dims[1] * turned[2] - 2 * out.dims[2] * turned[1]
                     \in (0 - (turned[1] + turned[2]))..(turned[1] + turned[2])
               \/ out.dims[1] = 1
               \/ out.dims[2] = 1
            /\ (probe.dims = << 4000, 2000 >> /\ bound = 300
                  /\ probe.orientation \in { "Deg0", "Deg180" })
                   => out.dims = << 600, 300 >>

\* The thumbnail of the 4000x2000 image with bound 300 has been made and
\* is 600x300.
C18_Witness ==
    /\ probe # None /\ "fn" \in DOMAIN probe /\ probe.fn = "thumbnail"
    /\ probe.out # None
    /\ args.thumbnail_height = 300
    /\ probe.dims = << 4000, 2000 >>
    /\ probe.orientation = "Deg0"
    /\ probe.out.some.dims = << 600, 300 >>

\* Item i has written the output file of the given name.
HasWritten(i, name) ==
    [path |-> [parent |-> args.output_dir, name |-> name], by |-> i] \in wrote

\* The entries of the archive, none if there is no archive.
ArchiveEntries == IF zipfile = None THEN << >> ELSE zipfile.some.entries

\* C19: in every state, also after the run has failed, no two entries of
\* the archive have the same name, and each entry has the file name of an
\* item that has written its thumbnail and its full-size file; an item
\* that has written its full-size file has written its thumbnail; and an
\* item that has failed has neither written a full-size file nor an entry.
C19_EntriesFollowWrites ==
    /\ \A k1, k2 \in 1..Len(ArchiveEntries) :
           k1 # k2 => ArchiveEntries[k1].name # ArchiveEntries[k2].name
    /\ Len(ArchiveEntries) <= Len(image_files)
    /\ \A k \in 1..Len(ArchiveEntries) :
           \E i \in DOMAIN image_files :
               LET name == image_files[i].name
                   n == Len(name)
               IN  /\ ArchiveEntries[k].name = name
                   /\ HasWritten(i, name)
                   /\ HasWritten(i, SubSeq(name, 1, n - 4)
                          \o << ".", "t", "h", "u", "m", "b", ".", "j", "p", "g" >>)
    /\ \A i \in DOMAIN pc :
           LET name == image_files[i].name
               n == Len(name)
           IN  /\ HasWritten(i, name) =>
                      HasWritten(i, SubSeq(name, 1, n - 4)
                          \o << ".", "t", "h", "u", "m", "b", ".", "j", "p", "g" >>)
               /\ pc[i] = "failed" =>
                      /\ ~HasWritten(i, name)
                      /\ \A k \in 1..Len(ArchiveEntries) :
                             ArchiveEntries[k].name # name

\* A run has failed on one item after another item's entry was appended.
C19_Witness ==
    /\ pcMain = "error"
    /\ Len(ArchiveEntries) = 1
    /\ \E i \in DOMAIN pc :
           /\ pc[i] = "failed"
           /\ HasWritten(i, SubSeq(image_files[i].name, 1, Len(image_files[i].name) - 4)
                  \o << ".", "t", "h", "u", "m", "b", ".", "j", "p", "g" >>)
    /\ \E i \in DOMAIN pc : pc[i] = "done"

\* C20: every run ends: main returns with index.html written, returns an
\* error, or panics.  When it has ended no closure is running or waiting
\* for the lock of the archive, and until then some step can always be
\* taken, so no closure waits for ever: a closure that asks for the lock
\* leaves the request by obtaining the lock or by panicking on the
\* poisoned lock that a closure left which panicked while holding it.
C20_RunTerminates ==
    /\ <>(pcMain \in { "done", "error", "panic" })
    /\ [](pcMain = "done" => indexWritten)
    /\ [](pcMain \in { "done", "error", "panic" } \/ ENABLED Next)
    /\ [](pcMain \in { "done", "error", "panic" } =>
             \A i \in DOMAIN pc : pc[i] \in { "idle", "done", "failed", "panicked" })
    /\ [][\A i \in DOMAIN pc :
             (pc[i] = "lock" /\ pc'[i] # "lock") =>
                 \/ pc'[i] \in { "start_file", "unlock" } /\ lockHolder' = i
                 \/ pc'[i] = "panicked" /\ poisoned]_vars

\* A closure is waiting for the lock that another closure left poisoned.
C20_Witness ==
    /\ poisoned
    /\ lockHolder = 0
    /\ \E i, j \in DOMAIN pc : pc[i] = "lock" /\ pc[j] = "panicked"

====
